---- MODULE Spec2Model ----
(***************************************************************************)
(* Model of the Instagram post scraper (src/src/main.py, src/src/parse.py, *)
(* src/instagram.py).                                                      *)
(*                                                                         *)
(* The batch scheduler fetch_posts_with_proxy with its batch runner, the    *)
(* user walks fetch_user_with_proxy and scrape_user_posts, the fan-out     *)
(* fetch_users_with_proxy, one call of scrape_post and one call of         *)
(* parse_post are modelled as one state machine; `phase` says which of     *)
(* these entry points runs.                                                *)
(***************************************************************************)
EXTENDS Integers, Sequences, FiniteSets, TLC

\* ------------------------------------------------------------------ bounds
Targets == {"a", "b"}      \* shortcodes that may appear in the input list
MaxLen == 2                \* longest input list of shortcodes
MaxBatch == 2              \* largest batchsize
MaxConc == 2               \* largest concurrency_limit
MaxRetries == 2            \* largest max_retries
MaxPending == 3            \* longest list of failed shortcodes of a round
MaxRecs == 2               \* records per shortcode are counted up to here
MaxSessions == 3           \* proxy sessions are numbered up to here
MaxFeed == 3                \* longest timeline of a user
MaxTime == 2                \* creation timestamps are 1..MaxTime
MaxPages == 2               \* largest max_pages
MaxPosts == 4               \* longest list of posts of a walk
PageSize == 2               \* largest page_size of a walk
MaxCaption == 2             \* most caption edges of a node
MaxChildren == 2            \* most children of a sidecar
MaxUsers == 3               \* longest list of user ids

\* ------------------------------------------------------------ program data
Tries == 3                 \* main.py:15  @retry(ReadTimeout, tries=3, ...)

\* What the network does with one request of scrape_post (main.py:27-42).
NetOutcomes ==
    {"ok", "ok_unparsable", "http401", "http_other", "malformed",
     "timeout", "proxy_error"}

Min(x, y) == IF x < y THEN x ELSE y

RECURSIVE SeqsUpTo(_, _)
SeqsUpTo(S, n) ==
    IF n = 0 THEN {<<>>}
    ELSE LET shorter == SeqsUpTo(S, n - 1)
         IN  shorter \cup {Append(s, x) : s \in {t \in shorter : Len(t) = n - 1}, x \in S}

\* s[i:j] of Python, with 0-based i and exclusive j clipped to len(s)
Slice(s, i, j) == SubSeq(s, i + 1, Min(j, Len(s)))

\* a split that drops a last batch shorter than size
SplitBatches_full_only(s, size) ==
    LET n == Len(s) \div size
    IN  [k \in 1..n |-> Slice(s, (k - 1) * size, (k - 1) * size + size)]

\* main.py:186 and main.py:219
\*   [shortcodes[i:i + batchsize] for i in range(0, len(shortcodes), batchsize)]
SplitBatches(s, size) ==
    LET n == (Len(s) + size - 1) \div size
    IN  [k \in 1..n |-> Slice(s, (k - 1) * size, (k - 1) * size + size)]

RECURSIVE Flatten(_)
\* main.py:204-207
Flatten(ss) == IF ss = <<>> THEN <<>> ELSE Head(ss) \o Flatten(Tail(ss))

RECURSIVE SumLen(_)
SumLen(ss) == IF ss = <<>> THEN 0 ELSE Len(Head(ss)) + SumLen(Tail(ss))

\* number of occurrences of x in the sequence s
Count(s, x) == Cardinality({i \in 1..Len(s) : s[i] = x})

\* ------------------------------------------------------------------ state
VARIABLES
    phase,              \* the entry point that runs: "posts", "user", "users",
                        \* "scrape" of main.py, "parse" of parse.py, "scraper"
                        \* for scrape_user_posts of instagram.py
    pc,                 \* position of that entry point
    \* fetch_posts_with_proxy (main.py:180-224)
    shortcodes,         \* the input list
    batchsize,
    concurrency_limit,
    max_retries,
    batches,            \* the batches of the current round
    results,            \* successful records in `results`, counted per shortcode
    error_records,      \* the NOT_FETCHED records appended at main.py:222-223
    n_failed,
    no_progress,
    failed_shortcodes,
    sem,                \* value of asyncio.Semaphore(concurrency_limit)
    \* one process_batch task per batch of the round (main.py:191-196)
    bstate,             \* "waiting", "acquired", "fetching", "done"
    bsession,           \* the proxy session the task acquired (0: none)
    bfailed,            \* `failed` returned by the task
    \* history, kept for the properties
    last_batch,         \* the last call of fetch_post_batch_with_proxy that returned:
                        \* its batch and outputs, and the shortcodes it saw fail
                        \* with a FinalFailures / TransientFailures answer
    rounds,             \* completed rounds
    streak,             \* latest consecutive rounds that did not reduce the failed count
    nsessions,          \* calls of proxy_configuration.new_url()
    session_uses,       \* per session: batch executions that fetched through it
    only_failures,      \* every target so far was requested and its request failed
    prev_final,         \* shortcodes that the last batch of the round just ended saw
                        \* answered with status 401 or a malformed payload
    prev_transient,     \* ... and those it saw fail in another way
    \* fetch_user_with_proxy (main.py:73-156), scrape_user_posts (instagram.py:215-243)
    feed,               \* the user's timeline on the server: creation timestamps
    from_date,          \* the date cutoff (NoDate: None)
    page_size,
    max_pages,
    posts,              \* the posts collected, as positions in the feed
    page_number,
    after,              \* variables["after"]: NoCursor or the offset reached
    n_subsequent_errors,
    wsession,           \* the proxy session of the current page request
    last_answer,        \* how the page request of this turn of the loop ended
                        \* ("none": not answered yet)
    \* fetch_users_with_proxy (main.py:158-178)
    walks,              \* per user id, its fetch_user_with_proxy coroutine:
                        \* "created", "walking", "done"
    \* one call of scrape_post (main.py:15-42)
    sp_net,             \* what the network answers to the 1st, 2nd, ... request
    sp_calls,           \* requests made
    sp_response,        \* what the caller gets
    \* one call of parse_post (parse.py:78-112)
    payload,            \* the node handed to parse_post
    record              \* what parse_post returns

vars ==
    <<phase, pc, shortcodes, batchsize, concurrency_limit, max_retries, batches,
      results, error_records, n_failed, no_progress, failed_shortcodes, sem,
      bstate, bsession, bfailed,
      last_batch, rounds, streak, nsessions, session_uses, only_failures,
      prev_final, prev_transient,
      feed, from_date, page_size, max_pages, posts, page_number, after,
      n_subsequent_errors, wsession, last_answer, walks,
      sp_net, sp_calls, sp_response, payload, record>>

schedVars ==
    <<shortcodes, batchsize, concurrency_limit, batches, results,
      error_records, n_failed, no_progress, failed_shortcodes, sem, bstate,
      bsession, bfailed, last_batch, rounds, streak, only_failures,
      prev_final, prev_transient>>

userVars ==
    <<feed, from_date, page_size, max_pages, posts, page_number, after,
      n_subsequent_errors, wsession, last_answer, walks>>

scrapeVars == <<sp_net, sp_calls, sp_response>>

parseVars == <<payload, record>>

\* ------------------------------------------------------------------ parse.py
\* Values of Python: a str as its characters, a list as its items, an int, None.
Str(chars) == [type |-> "str", items |-> chars]
List(items) == [type |-> "list", items |-> items]
Num(n) == [type |-> "int", items |-> <<n>>]
None == [type |-> "none", items |-> <<>>]

\* the texts of caption edges and the child nodes of a sidecar
Texts == {<<"a">>, <<"b">>}
Children == {"c1", "c2"}

\* data.get("__typename"): the tags parse_post knows, another tag, no tag
TypeTags ==
    {"XDTGraphImage", "GraphImage", "XDTGraphVideo", "GraphVideo",
     "XDTGraphSidecar", "GraphSidecar", "GraphStoryImage", "absent"}

\* what a node carries at edge_media_to_comment and at
\* edge_media_to_parent_comment when it has them
TopComments == [count |-> Num(1), end_cursor |-> Str(<<"t">>), entries |-> <<"t1">>]
ParentComments ==
    [count |-> Num(2), end_cursor |-> Str(<<"p">>), entries |-> <<"p1", "p2">>]

\* The nodes handed to parse_post: with or without edge_media_to_caption
\* (its edges' texts), a type tag, with or without edge_sidecar_to_children
\* (its child nodes), with or without either shape of comments.
Payloads ==
    {p \in [has_caption : BOOLEAN, caption : SeqsUpTo(Texts, MaxCaption),
            typename : TypeTags,
            has_children : BOOLEAN, children : SeqsUpTo(Children, MaxChildren),
            has_comment : BOOLEAN, has_parent_comment : BOOLEAN] :
        /\ ~p.has_caption => p.caption = <<>>
        /\ ~p.has_children => p.children = <<>>}

\* parse.py:98  "\n\n".join(texts), with sep the characters of the separator
RECURSIVE Join(_, _)
Join(sep, texts) ==
    IF texts = <<>> THEN <<>>
    ELSE IF Len(texts) = 1 THEN texts[1]
    ELSE texts[1] \o sep \o Join(sep, Tail(texts))

\* the fields read from a shape of comments; None for each when it is absent
CommentFields(present, shape) ==
    IF present
    THEN [n_comments |-> shape.count, comments_next_page |-> shape.end_cursor,
          comments |-> List(shape.entries)]
    ELSE [n_comments |-> None, comments_next_page |-> None, comments |-> None]

\* parse.py:3-31: every path starts at edge_media_to_parent_comment
parse_comment(data) == CommentFields(data.has_parent_comment, ParentComments)

\* instagram.py:115-153: the top-level shape when the node has it, else the
\* nested one
parse_comments(data) ==
    IF data.has_comment THEN CommentFields(TRUE, TopComments)
    ELSE CommentFields(data.has_parent_comment, ParentComments)

\* parse.py:46-59 and parse.py:61-76, for the node named `node`
parse_image(node) == [shortcode |-> node, kind |-> "image"]
parse_video(node) == [shortcode |-> node, kind |-> "video"]

\* a sidecar reduced to its first child
parse_sidecar_first_child(data) ==
    [i \in 1..Min(1, Len(data.children)) |-> parse_image(data.children[i])]

\* parse.py:33-44 for a node that has edge_sidecar_to_children
parse_sidecar(data) ==
    [i \in 1..Len(data.children) |-> parse_image(data.children[i])]

\* a dispatch that takes every tag it does not know for an image
IsImage_by_default(tag) ==
    tag \notin {"XDTGraphVideo", "GraphVideo", "XDTGraphSidecar", "GraphSidecar"}

\* parse.py:105, 107, 109
IsImage(tag) == tag \in {"XDTGraphImage", "GraphImage"}
IsVideo(tag) == tag \in {"XDTGraphVideo", "GraphVideo"}
IsSidecar(tag) == tag \in {"XDTGraphSidecar", "GraphSidecar"}

\* the keys of the record before the media are added (parse.py:80-101)
NonMediaFields ==
    {"id", "shortcode", "post_created", "username", "caption", "n_likes",
     "location", "is_video", "is_paid_partnership", "tagged_users",
     "n_comments", "comments_disabled", "comments_next_page",
     "comments_has_next_page", "comments"}

\* parse.py:97: len(None) when the node has no edge_media_to_caption;
\* parse.py:42: iteration over None when a sidecar has no children
PostRaises(data) ==
    \/ ~data.has_caption
    \/ IsSidecar(data.typename) /\ ~data.has_children

NoRecord ==
    [raised |-> FALSE, fields |-> {}, caption |-> None,
     comments |-> CommentFields(FALSE, TopComments), images |-> <<>>, videos |-> <<>>]

\* parse.py:78-112
parse_post(data) ==
    IF PostRaises(data) THEN [NoRecord EXCEPT !.raised = TRUE]
    ELSE LET tag == data.typename
             media == IF IsImage(tag) \/ IsSidecar(tag) THEN {"images"}
                      ELSE IF IsVideo(tag) THEN {"videos"} ELSE {}
         IN  [raised |-> FALSE,
              fields |-> NonMediaFields \cup media,
              caption |-> IF Len(data.caption) > 0             \* parse.py:97-98
                          THEN Str(Join(<<"\n", "\n">>, data.caption))
                          ELSE List(data.caption),
              comments |-> parse_comment(data),               \* parse.py:101
              images |-> IF IsImage(tag) THEN <<parse_image("self")>>
                         ELSE IF IsVideo(tag) THEN <<>>
                         ELSE IF IsSidecar(tag) THEN parse_sidecar(data)
                         ELSE <<>>,
              videos |-> IF IsImage(tag) THEN <<>>
                         ELSE IF IsVideo(tag) THEN <<parse_video("self")>>
                         ELSE <<>>]

\* --------------------------------------------------------------- scrape_post
\* The body of scrape_post (main.py:18-42) makes one request and turns the
\* network's answer into its result: the payload, None, or a raised exception.
ScrapePostBody(net) ==
    CASE net = "ok"            -> "data"        \* main.py:38-39
      [] net = "ok_unparsable" -> "bad_data"    \* main.py:38-39, parse_post raises on it
      [] net = "http401"       -> "none"        \* main.py:33-35
      [] net = "http_other"    -> "none"        \* main.py:33-35
      [] net = "malformed"     -> "none"        \* main.py:40-42
      [] net = "timeout"       -> "exc_timeout" \* client.post raises ReadTimeout
      [] net = "proxy_error"   -> "exc_other"   \* client.post raises another error

IsException(response) == response \in {"exc_timeout", "exc_other"}

\* main.py:15-16: retry() wraps the call scrape_post(client, shortcode) and
\* repeats it while the call itself raises ReadTimeout.  scrape_post is an
\* `async def`: the call only creates the coroutine and raises nothing; the
\* body runs, and ReadTimeout is raised, where asyncio.gather (main.py:58)
\* awaits the coroutine, outside the decorator.
CallRaisesReadTimeout(net) == FALSE

\* the decorator's loop: the number of the call whose value it returns
RECURSIVE RetryCall(_, _)
RetryCall(nets, k) ==
    IF k < Tries /\ CallRaisesReadTimeout(nets[k]) THEN RetryCall(nets, k + 1) ELSE k

\* scrape_post as fetch_post_batch_with_proxy uses it (main.py:57-58): the one
\* coroutine the decorator hands back is awaited, so its body runs once.
ScrapePost(nets) ==
    LET k == RetryCall(nets, 1)
    IN  [calls |-> 1, response |-> ScrapePostBody(nets[k])]

\* the network answering every request for a target in the same way
Always(net) == [k \in 1..Tries |-> net]

\* the test without `or not response`
IsFailedResponse_exceptions_only(response) == IsException(response)

\* main.py:61  isinstance(response, Exception) or not response
IsFailedResponse(response) == IsException(response) \/ response = "none"

\* parse_post(response) raises on a payload it cannot read (parse.py:97)
ParseRaises(response) == response = "bad_data"

\* -------------------------------------------------- fetch_post_batch_with_proxy
\* main.py:60-65, from index i on; stops where parse_post raises.
RECURSIVE ProcessResponses(_, _, _, _, _)
ProcessResponses(batch, responses, i, res, failed) ==
    IF i > Len(batch) THEN [results |-> res, failed |-> failed, raised |-> FALSE]
    ELSE IF IsFailedResponse(responses[i])
         THEN ProcessResponses(batch, responses, i + 1, res, Append(failed, batch[i]))
    ELSE IF ParseRaises(responses[i])
         THEN [results |-> res, failed |-> failed, raised |-> TRUE]
    ELSE ProcessResponses(batch, responses, i + 1, Append(res, batch[i]), failed)

\* main.py:67-69  failed.extend(batch)
OnProxyError(batch, failed) == failed \o batch

\* main.py:51-71: the client may fail to open; otherwise one response per target
FetchPostBatch(batch, client_ok, nets) ==
    IF ~client_ok
    THEN [results |-> <<>>, failed |-> OnProxyError(batch, <<>>), raised |-> TRUE]
    ELSE LET responses == [i \in 1..Len(batch) |-> ScrapePost(Always(nets[i])).response]
             r == ProcessResponses(batch, responses, 1, <<>>, <<>>)
         IN  IF r.raised
             THEN [results |-> r.results,
                   failed |-> OnProxyError(batch, r.failed), raised |-> TRUE]
             ELSE r

\* ------------------------------------------------------ fetch_posts_with_proxy
\* a semaphore that lets every task in
CanAcquire_unbounded(value) == TRUE

\* main.py:192  `async with semaphore` enters only while the value is positive
CanAcquire(value) == value > 0

\* the comparison with > in place of >=
Stagnant_strict(n_now, n_before) == n_now > n_before

\* main.py:210  len(failed_shortcodes) >= n_failed
Stagnant(n_now, n_before) == n_now >= n_before

\* giving up one round late
GiveUp_late(counter, limit) == counter = limit + 1

\* main.py:212  no_progress == max_retries
GiveUp(counter, limit) == counter = limit

\* main.py:211  no_progress += 1.  The counter is only ever compared with
\* max_retries <= MaxRetries, so values above MaxRetries are kept as MaxRetries + 1.
IncNoProgress(counter) == Min(counter + 1, MaxRetries + 1)

\* main.py:195  results.extend(batch_results), counted per shortcode up to MaxRecs
ExtendResults(res, recs) ==
    [s \in Targets |-> Min(res[s] + Count(recs, s), MaxRecs)]

\* main.py:222-223: one record per element of failed_shortcodes; the message
\* names `shortcode`, the variable last bound by the loop of main.py:206.
ErrorRecords(fs) ==
    [i \in 1..Len(fs) |->
        [shortcode |-> fs[i], error |-> "NOT_FETCHED", message |-> fs[Len(fs)]]]

\* the answers that spec.md section 7 calls non-retryable, and the other failures
FinalFailures == {"http401", "malformed"}
TransientFailures == {"http_other", "timeout", "proxy_error"}
FetchFailures == FinalFailures \cup TransientFailures

\* completed rounds are counted up to here
RoundCap == MaxRetries + 1

NoDate == 0      \* from_date is None
NoCursor == 0    \* variables["after"] is None

Tasks == 1..Len(batches)

\* no call of fetch_post_batch_with_proxy has returned yet
NoBatch ==
    [batch |-> <<>>, results |-> <<>>, failed |-> <<>>, final |-> {}, transient |-> {}]

\* the tasks of a new round, all waiting at main.py:192
ResetTasks(bs) ==
    /\ bstate' = [b \in 1..Len(bs) |-> "waiting"]
    /\ bsession' = [b \in 1..Len(bs) |-> 0]
    /\ bfailed' = [b \in 1..Len(bs) |-> <<>>]

\* the variables of the entry points that main() does not run
IdlePosts ==
    /\ shortcodes = <<>> /\ batchsize = 1 /\ concurrency_limit = 1
    /\ batches = <<>> /\ results = [s \in Targets |-> 0] /\ error_records = <<>>
    /\ n_failed = 0 /\ no_progress = 0 /\ failed_shortcodes = <<>> /\ sem = 1
    /\ bstate = <<>> /\ bsession = <<>> /\ bfailed = <<>> /\ last_batch = NoBatch
    /\ rounds = 0 /\ streak = 0 /\ only_failures = TRUE
    /\ prev_final = {} /\ prev_transient = {}

IdleUser ==
    /\ feed = <<>> /\ from_date = NoDate /\ page_size = 1 /\ max_pages = 0
    /\ posts = <<>>
    /\ page_number = 1 /\ after = NoCursor /\ n_subsequent_errors = 0
    /\ wsession = 0 /\ last_answer = "none" /\ walks = <<>>

IdleScrape == sp_net = <<>> /\ sp_calls = 0 /\ sp_response = "none"

NoPayload ==
    [has_caption |-> FALSE, caption |-> <<>>, typename |-> "absent",
     has_children |-> FALSE, children |-> <<>>,
     has_comment |-> FALSE, has_parent_comment |-> FALSE]

IdleParse == payload = NoPayload /\ record = NoRecord

\* main.py:263-264: main() calls fetch_posts_with_proxy with a non-empty list
InitPosts ==
    /\ phase = "posts"
    /\ IdleUser /\ IdleScrape /\ IdleParse
    /\ pc = "running"
    /\ shortcodes \in SeqsUpTo(Targets, MaxLen) \ {<<>>}   \* main.py:263
    /\ batchsize \in 1..MaxBatch
    /\ concurrency_limit \in 1..MaxConc
    /\ max_retries \in 0..MaxRetries
    /\ batches = SplitBatches(shortcodes, batchsize)       \* main.py:186
    /\ results = [s \in Targets |-> 0]                     \* main.py:187
    /\ error_records = <<>>
    /\ n_failed = Len(shortcodes)                          \* main.py:188
    /\ sem = concurrency_limit                             \* main.py:189
    /\ no_progress = 0                                     \* main.py:198
    /\ failed_shortcodes = <<>>
    /\ bstate = [b \in 1..Len(batches) |-> "waiting"]
    /\ bsession = [b \in 1..Len(batches) |-> 0]
    /\ bfailed = [b \in 1..Len(batches) |-> <<>>]
    /\ last_batch = NoBatch
    /\ rounds = 0
    /\ streak = 0
    /\ nsessions = 0
    /\ session_uses = [k \in 1..MaxSessions |-> 0]
    /\ only_failures = TRUE
    /\ prev_final = {}
    /\ prev_transient = {}

\* main.py:192: a task enters the semaphore
Acquire(b) ==
    /\ phase = "posts" /\ pc = "running"
    /\ bstate[b] = "waiting"
    /\ CanAcquire(sem)
    /\ sem' = sem - 1
    /\ bstate' = [bstate EXCEPT ![b] = "acquired"]
    /\ UNCHANGED <<userVars, scrapeVars, parseVars, phase, pc, shortcodes, batchsize, concurrency_limit,
                   max_retries, batches, results, error_records, n_failed,
                   no_progress, failed_shortcodes, bsession, bfailed,
                   last_batch, rounds, streak, nsessions, session_uses,
                   only_failures, prev_final, prev_transient>>

\* one session, obtained once and handed to every caller
NewSession_reuse(n) == IF n = 0 THEN 1 ELSE n

\* proxy_configuration.new_url() hands out a new session; sessions are
\* numbered in the order of the calls, the numbers from MaxSessions on merged.
NewSession(n) == Min(n + 1, MaxSessions)

\* main.py:47-48: the batch gets its proxy session
NewUrl(b) ==
    /\ phase = "posts" /\ pc = "running"
    /\ bstate[b] = "acquired"
    /\ nsessions' = NewSession(nsessions)
    /\ bsession' = [bsession EXCEPT ![b] = nsessions']
    /\ bstate' = [bstate EXCEPT ![b] = "fetching"]
    /\ UNCHANGED <<userVars, scrapeVars, parseVars, phase, pc, shortcodes, batchsize, concurrency_limit,
                   max_retries, batches, results, error_records, n_failed,
                   no_progress, failed_shortcodes, sem, bfailed,
                   last_batch, rounds, streak, session_uses, only_failures,
                   prev_final, prev_transient>>

\* main.py:47 raises: nothing catches it in fetch_post_batch_with_proxy (the
\* try starts at main.py:55) nor in process_batch, whose `async with` releases
\* the semaphore; asyncio.gather (main.py:201) re-raises it and
\* fetch_posts_with_proxy ends with the exception.
NewUrlRaises(b) ==
    /\ phase = "posts" /\ pc = "running"
    /\ bstate[b] = "acquired"
    /\ bstate' = [bstate EXCEPT ![b] = "raised"]
    /\ sem' = sem + 1
    /\ pc' = "raised"
    /\ only_failures' = FALSE
    /\ UNCHANGED <<userVars, scrapeVars, parseVars, phase, shortcodes, batchsize, concurrency_limit,
                   max_retries, batches, results, error_records, n_failed,
                   no_progress, failed_shortcodes, bsession, bfailed,
                   last_batch, rounds, streak, nsessions, session_uses,
                   prev_final, prev_transient>>

\* the shortcodes of a batch whose request ended with one of `kinds`
AnsweredWith(batch, nets, kinds) ==
    {batch[i] : i \in {j \in 1..Len(batch) : nets[j] \in kinds}}

\* the targets still to be reported by the tasks other than b
OthersPending(b) ==
    SumLen([c \in Tasks |->
        IF c = b THEN <<>> ELSE IF bstate[c] = "done" THEN bfailed[c] ELSE batches[c]])

\* main.py:51-71 and main.py:193-196: the batch runs through its session,
\* its records are added to `results`, the semaphore is released.
RunBatch(b) ==
    /\ phase = "posts" /\ pc = "running"
    /\ bstate[b] = "fetching"
    /\ \E client_ok \in BOOLEAN :
       \E nets \in [1..Len(batches[b]) -> IF client_ok THEN NetOutcomes ELSE {"no_call"}] :
          LET r == FetchPostBatch(batches[b], client_ok, nets)
          IN  /\ OthersPending(b) + Len(r.failed) <= MaxPending
              /\ bfailed' = [bfailed EXCEPT ![b] = r.failed]
              /\ last_batch' =
                    [batch |-> batches[b], results |-> r.results, failed |-> r.failed,
                     final |-> AnsweredWith(batches[b], nets, FinalFailures),
                     transient |-> AnsweredWith(batches[b], nets, TransientFailures)]
              /\ results' = ExtendResults(results, r.results)
              /\ only_failures' =
                    (only_failures /\ \A i \in 1..Len(nets) : nets[i] \in FetchFailures)
    /\ session_uses' =
          [session_uses EXCEPT ![bsession[b]] = Min(@ + 1, 2)]
    /\ bstate' = [bstate EXCEPT ![b] = "done"]
    /\ sem' = sem + 1
    /\ prev_final' = {}
    /\ prev_transient' = {}
    /\ UNCHANGED <<userVars, scrapeVars, parseVars, phase, pc, shortcodes, batchsize, concurrency_limit,
                   max_retries, batches, error_records, n_failed,
                   no_progress, failed_shortcodes, bsession, rounds, streak,
                   nsessions>>

\* main.py:201-224: asyncio.gather has every task's `failed`; the failed
\* shortcodes are flattened, the stagnation rule decides, and the loop either
\* goes on with the new batches or the function returns.
EndRound ==
    /\ phase = "posts" /\ pc = "running"
    /\ \A b \in Tasks : bstate[b] = "done"
    /\ LET fs == Flatten(bfailed)                             \* main.py:204-207
           stagnant == Stagnant(Len(fs), n_failed)            \* main.py:210
           counter == IF stagnant THEN IncNoProgress(no_progress) ELSE 0
           stop == stagnant /\ GiveUp(counter, max_retries)   \* main.py:212-214
           nb == SplitBatches(fs, batchsize)                  \* main.py:219
       IN  /\ failed_shortcodes' = fs
           /\ no_progress' = counter
           /\ n_failed' = IF stop THEN n_failed ELSE Len(fs)  \* main.py:218
           /\ batches' = IF stop THEN batches ELSE nb
           /\ IF stop \/ nb = <<>>                            \* main.py:199, 214
              THEN /\ pc' = "returned"
                   /\ error_records' = ErrorRecords(fs)       \* main.py:222-224
                   /\ UNCHANGED <<bstate, bsession, bfailed>>
              ELSE /\ pc' = "running"
                   /\ error_records' = error_records
                   /\ ResetTasks(nb)
           /\ streak' = IF Len(fs) < SumLen(batches) THEN 0
                         ELSE Min(streak + 1, MaxRetries + 1)
    /\ rounds' = Min(rounds + 1, RoundCap)
    /\ last_batch' = NoBatch
    /\ prev_final' = last_batch.final
    /\ prev_transient' = last_batch.transient
    /\ UNCHANGED <<userVars, scrapeVars, parseVars, phase, shortcodes, batchsize, concurrency_limit, max_retries,
                   results, sem, nsessions, session_uses, only_failures>>

\* ---------------------------------------------------------------- scrape_post
\* one decorated call of scrape_post, awaited as main.py:57-58 does
InitScrape ==
    /\ phase = "scrape"
    /\ pc = "start"
    /\ IdlePosts /\ IdleUser /\ IdleParse
    /\ max_retries = 0
    /\ nsessions = 0
    /\ session_uses = [k \in 1..MaxSessions |-> 0]
    /\ sp_net \in [1..Tries -> NetOutcomes]
    /\ sp_calls = 0
    /\ sp_response = "none"

AwaitScrapePost ==
    /\ phase = "scrape" /\ pc = "start"
    /\ LET r == ScrapePost(sp_net)
       IN  /\ sp_calls' = r.calls
           /\ sp_response' = r.response
    /\ pc' = "returned"
    /\ UNCHANGED <<schedVars, userVars, parseVars, phase, max_retries, nsessions,
                   session_uses, sp_net>>

\* ------------------------------------------------------ fetch_user_with_proxy
\* main.py:259-260: main() walks the timeline of a user
InitUser ==
    /\ phase = "user"
    /\ pc = "new_url"
    /\ IdlePosts /\ IdleScrape /\ IdleParse
    /\ max_retries \in 0..MaxRetries
    /\ nsessions = 0
    /\ session_uses = [k \in 1..MaxSessions |-> 0]
    /\ feed \in SeqsUpTo(1..MaxTime, MaxFeed)
    /\ from_date \in {NoDate} \cup (1..MaxTime)
    /\ page_size \in 1..PageSize
    /\ max_pages \in 0..MaxPages
    /\ posts = <<>>                          \* main.py:88
    /\ page_number = 1                       \* main.py:89
    /\ after = NoCursor                      \* main.py:90
    /\ n_subsequent_errors = 0               \* main.py:94
    /\ wsession = 0
    /\ last_answer = "none"
    /\ walks = <<>>

\* main.py:96: every turn of the loop asks for a new proxy session
WalkNewUrl ==
    /\ phase = "user" /\ pc = "new_url"
    /\ nsessions' = NewSession(nsessions)
    /\ wsession' = nsessions'
    /\ last_answer' = "none"
    /\ pc' = "request"
    /\ UNCHANGED <<schedVars, scrapeVars, parseVars, phase, max_retries, session_uses,
                   feed, from_date, page_size, max_pages, posts, page_number,
                   after, n_subsequent_errors, walks>>

\* main.py:96 raises: main.py:153 catches it and the walk returns its posts
WalkNewUrlRaises ==
    /\ phase = "user" /\ pc = "new_url"
    /\ pc' = "returned"
    /\ UNCHANGED <<schedVars, scrapeVars, parseVars, userVars, phase, max_retries,
                   nsessions, session_uses>>

\* the page of the feed that the server sends for the cursor
PageEdges(cursor) ==
    [i \in 1..(Min(cursor + page_size, Len(feed)) - cursor) |-> cursor + i]

\* main.py:113-123 from edge i on: "cutoff" when an older post is met
\* (main.py:119-121), "raised" when the edge raise_at raises (parse_post,
\* datetime.fromtimestamp), "done" at the end of the page.
RECURSIVE CollectFrom(_, _, _, _, _, _)
CollectFrom(timeline, cutoff, edges, i, raise_at, acc) ==
    IF i > Len(edges) THEN [posts |-> acc, end |-> "done"]
    ELSE IF i = raise_at THEN [posts |-> acc, end |-> "raised"]
    ELSE IF cutoff # NoDate /\ timeline[edges[i]] < cutoff
         THEN [posts |-> acc, end |-> "cutoff"]
    ELSE CollectFrom(timeline, cutoff, edges, i + 1, raise_at, Append(acc, edges[i]))

\* ... for the timeline and the cutoff of the walk
CollectEdges(edges, i, raise_at, acc) ==
    CollectFrom(feed, from_date, edges, i, raise_at, acc)

\* the comparison with > in place of >=
RetriesExhausted_strict(errors, limit) == errors > limit

\* main.py:148: the except branch stops the walk when this holds
RetriesExhausted(errors, limit) == errors >= limit

\* a walker without the guard
SameCursor_never(cursor, end_cursor) == FALSE

\* main.py:134, instagram.py:238  variables["after"] == page_info["end_cursor"]
SameCursor(cursor, end_cursor) == cursor = end_cursor

\* a limit that lets one page more through
PageLimitReached_one_more(limit, number) == limit > 0 /\ number > limit + 1

\* main.py:142; instagram.py:242 `max_pages and _page_number > max_pages`
PageLimitReached(limit, number) == limit > 0 /\ number > limit

\* main.py:146-151
WalkExcept(errors) ==
    pc' = IF RetriesExhausted(errors, max_retries) THEN "returned" ELSE "new_url"

\* main.py:100-151: one page request through the session of this turn.
\*   answer "status": a status other than 200 (main.py:103-106)
\*   answer "error":  client.get, response.json() or the lookup of
\*                    main.py:111 raises
\*   answer "page":   a page of the feed; raise_at is the edge at which
\*                    main.py:114-118 raises (0: none; one past the last edge:
\*                    main.py:125-127 raises); `stuck` is a server that sends
\*                    the cursor of the request back with has_next_page set.
\* last_answer records the way the turn ended: "status", "error" (any
\* exception), "cutoff", "last_page", "stuck", "limit" or "next".
WalkPage ==
    /\ phase = "user" /\ pc = "request"
    /\ session_uses' = [session_uses EXCEPT ![wsession] = Min(@ + 1, 2)]
    /\ \E answer \in {"status", "error", "page"} :
          CASE answer = "status" ->
                 /\ n_subsequent_errors' = n_subsequent_errors + 1
                 /\ pc' = "returned"
                 /\ last_answer' = "status"
                 /\ UNCHANGED <<posts, page_number, after>>
            [] answer = "error" ->
                 /\ WalkExcept(n_subsequent_errors)
                 /\ last_answer' = "error"
                 /\ UNCHANGED <<posts, page_number, after, n_subsequent_errors>>
            [] answer = "page" ->
                 LET edges == PageEdges(after)
                 IN  \E raise_at \in 0..(Len(edges) + 1), stuck \in BOOLEAN :
                     LET c == CollectEdges(edges, 1, raise_at, posts)
                         has_next_page == stuck \/ after + Len(edges) < Len(feed)
                         end_cursor == IF stuck THEN after ELSE after + Len(edges)
                     IN  /\ Len(c.posts) <= MaxPosts
                         /\ n_subsequent_errors' = 0           \* main.py:108
                         /\ posts' = c.posts
                         /\ IF c.end = "cutoff"                \* main.py:121
                            THEN /\ pc' = "returned" /\ last_answer' = "cutoff"
                                 /\ UNCHANGED <<page_number, after>>
                            ELSE IF c.end = "raised" \/ raise_at = Len(edges) + 1
                            THEN /\ WalkExcept(0) /\ last_answer' = "error"
                                 /\ UNCHANGED <<page_number, after>>
                            ELSE IF ~has_next_page             \* main.py:132
                            THEN /\ pc' = "returned" /\ last_answer' = "last_page"
                                 /\ UNCHANGED <<page_number, after>>
                            ELSE IF SameCursor(after, end_cursor)  \* main.py:134
                            THEN /\ pc' = "returned" /\ last_answer' = "stuck"
                                 /\ UNCHANGED <<page_number, after>>
                            ELSE /\ after' = end_cursor        \* main.py:139
                                 /\ page_number' = page_number + 1
                                 /\ IF PageLimitReached(max_pages, page_number')
                                    THEN pc' = "returned" /\ last_answer' = "limit"
                                    ELSE pc' = "new_url" /\ last_answer' = "next"
    /\ UNCHANGED <<schedVars, scrapeVars, parseVars, phase, max_retries, nsessions,
                   feed, from_date, page_size, max_pages, wsession, walks>>

\* ------------------------------------- InstagramScraper.scrape_user_posts
\* instagram.py:215-222: the generator before its first request; date_from is
\* not used by the body, max_pages = 0 stands for None as well.
InitUserPosts ==
    /\ phase = "scraper"
    /\ pc = "request"
    /\ IdlePosts /\ IdleScrape /\ IdleParse
    /\ max_retries = 0
    /\ nsessions = 0
    /\ session_uses = [k \in 1..MaxSessions |-> 0]
    /\ feed \in SeqsUpTo(1..MaxTime, MaxFeed)
    /\ from_date = NoDate
    /\ page_size \in 1..PageSize
    /\ max_pages \in 0..MaxPages
    /\ posts = <<>>
    /\ page_number = 1                       \* instagram.py:223
    /\ after = NoCursor                      \* instagram.py:221
    /\ n_subsequent_errors = 0
    /\ wsession = 0
    /\ last_answer = "none"
    /\ walks = <<>>

\* instagram.py:224-243: one turn of the loop, the consumer taking every
\* record the turn yields.  An exception (async_scrape, json.loads, a lookup,
\* parse_post) leaves the generator; the records yielded before it stay with
\* the consumer.
ScrapeUserPostsPage ==
    /\ phase = "scraper" /\ pc = "request"
    /\ \E answer \in {"error", "page"} :
          CASE answer = "error" ->
                 /\ pc' = "raised" /\ last_answer' = "error"
                 /\ UNCHANGED <<posts, page_number, after>>
            [] answer = "page" ->
                 LET edges == PageEdges(after)
                 IN  \E raise_at \in 0..(Len(edges) + 1), stuck \in BOOLEAN :
                     LET c == CollectEdges(edges, 1, raise_at, posts)
                         has_next_page == stuck \/ after + Len(edges) < Len(feed)
                         end_cursor == IF stuck THEN after ELSE after + Len(edges)
                     IN  /\ Len(c.posts) <= MaxPosts
                         /\ posts' = c.posts               \* instagram.py:229-230
                         /\ IF c.end = "raised" \/ raise_at = Len(edges) + 1
                            THEN /\ pc' = "raised" /\ last_answer' = "error"
                                 /\ UNCHANGED <<page_number, after>>
                            ELSE IF ~has_next_page         \* instagram.py:236
                            THEN /\ pc' = "returned" /\ last_answer' = "last_page"
                                 /\ UNCHANGED <<page_number, after>>
                            ELSE IF SameCursor(after, end_cursor)  \* instagram.py:238
                            THEN /\ pc' = "returned" /\ last_answer' = "stuck"
                                 /\ UNCHANGED <<page_number, after>>
                            ELSE /\ after' = end_cursor    \* instagram.py:240
                                 /\ page_number' = page_number + 1
                                 /\ IF PageLimitReached(max_pages, page_number')
                                    THEN pc' = "returned" /\ last_answer' = "limit"
                                    ELSE pc' = "request" /\ last_answer' = "next"
    /\ UNCHANGED <<schedVars, scrapeVars, parseVars, phase, max_retries, nsessions,
                   session_uses, feed, from_date, page_size, max_pages, wsession,
                   n_subsequent_errors, walks>>

\* ----------------------------------------------------- fetch_users_with_proxy
\* what fetch_users_with_proxy leaves alone
UsersUnchanged ==
    UNCHANGED <<scrapeVars, parseVars, phase, max_retries, nsessions, session_uses,
                shortcodes, batchsize, concurrency_limit, batches, results,
                error_records, n_failed, no_progress, failed_shortcodes, bstate,
                bsession, bfailed, last_batch, rounds, streak, only_failures,
                prev_final, prev_transient,
                feed, from_date, page_size, max_pages, posts, page_number, after,
                n_subsequent_errors, wsession, last_answer>>

\* main.py:259-260: main() calls fetch_users_with_proxy with a non-empty list
\* of user ids; main.py:174: the semaphore is created with concurrency_limit.
InitUsers ==
    /\ phase = "users"
    /\ pc = "start"
    /\ IdleScrape /\ IdleParse
    /\ max_retries = 0 /\ nsessions = 0
    /\ session_uses = [k \in 1..MaxSessions |-> 0]
    /\ shortcodes = <<>> /\ batchsize = 1
    /\ batches = <<>> /\ results = [s \in Targets |-> 0] /\ error_records = <<>>
    /\ n_failed = 0 /\ no_progress = 0 /\ failed_shortcodes = <<>>
    /\ bstate = <<>> /\ bsession = <<>> /\ bfailed = <<>> /\ last_batch = NoBatch
    /\ rounds = 0 /\ streak = 0 /\ only_failures = TRUE
    /\ prev_final = {} /\ prev_transient = {}
    /\ feed = <<>> /\ from_date = NoDate /\ page_size = 1 /\ max_pages = 0
    /\ posts = <<>> /\ page_number = 1 /\ after = NoCursor
    /\ n_subsequent_errors = 0 /\ wsession = 0 /\ last_answer = "none"
    /\ concurrency_limit \in 1..MaxConc
    /\ sem = concurrency_limit                                \* main.py:174
    /\ \E n \in 1..MaxUsers : walks = [u \in 1..n |-> "created"]

\* main.py:175-177: fetch_users_with_proxy itself enters the semaphore, once,
\* then creates one coroutine per user id and hands them all to asyncio.gather
EnterSemaphore ==
    /\ phase = "users" /\ pc = "start"
    /\ CanAcquire(sem)
    /\ sem' = sem - 1
    /\ pc' = "gathering"
    /\ UNCHANGED walks
    /\ UsersUnchanged

\* asyncio.gather (main.py:177) runs every coroutine as a task; a walk starts
\* when the event loop gets to it, and nothing in fetch_user_with_proxy
\* (main.py:88-156) waits for the semaphore
StartWalk(u) ==
    /\ phase = "users" /\ pc = "gathering"
    /\ walks[u] = "created"
    /\ walks' = [walks EXCEPT ![u] = "walking"]
    /\ UNCHANGED sem
    /\ UNCHANGED pc
    /\ UsersUnchanged

\* main.py:156: a walk returns its posts (it catches its own exceptions)
EndWalk(u) ==
    /\ phase = "users" /\ pc = "gathering"
    /\ walks[u] = "walking"
    /\ walks' = [walks EXCEPT ![u] = "done"]
    /\ UNCHANGED sem
    /\ UNCHANGED pc
    /\ UsersUnchanged

\* main.py:177-178: gather has every result, the semaphore is left
ReturnUsers ==
    /\ phase = "users" /\ pc = "gathering"
    /\ \A u \in 1..Len(walks) : walks[u] = "done"
    /\ sem' = sem + 1
    /\ pc' = "returned"
    /\ UNCHANGED walks
    /\ UsersUnchanged

\* the steps of fetch_users_with_proxy
NextUsers ==
    \/ EnterSemaphore
    \/ \E u \in 1..Len(walks) : StartWalk(u)
    \/ \E u \in 1..Len(walks) : EndWalk(u)
    \/ ReturnUsers

\* ---------------------------------------------------------------- parse_post
\* one call parse_post(node), as main.py:64 and main.py:114 make it
InitParse ==
    /\ phase = "parse"
    /\ pc = "start"
    /\ IdlePosts /\ IdleUser /\ IdleScrape
    /\ max_retries = 0
    /\ nsessions = 0
    /\ session_uses = [k \in 1..MaxSessions |-> 0]
    /\ payload \in Payloads
    /\ record = NoRecord

CallParsePost ==
    /\ phase = "parse" /\ pc = "start"
    /\ record' = parse_post(payload)
    /\ pc' = IF record'.raised THEN "raised" ELSE "returned"
    /\ UNCHANGED <<schedVars, userVars, scrapeVars, phase, max_retries,
                   nsessions, session_uses, payload>>

Init ==
    InitPosts \/ InitUser \/ InitUsers \/ InitScrape \/ InitUserPosts \/ InitParse

\* the steps of fetch_posts_with_proxy
NextPosts ==
    \/ \E b \in Tasks : Acquire(b)
    \/ \E b \in Tasks : NewUrl(b)
    \/ \E b \in Tasks : NewUrlRaises(b)
    \/ \E b \in Tasks : RunBatch(b)
    \/ EndRound

\* the steps of fetch_user_with_proxy
NextUser ==
    \/ WalkNewUrl
    \/ WalkNewUrlRaises
    \/ WalkPage

Next ==
    \/ NextPosts
    \/ NextUser
    \/ NextUsers
    \/ AwaitScrapePost
    \/ ScrapeUserPostsPage
    \/ CallParsePost

Spec == Init /\ [][Next]_vars

\* fetch_posts_with_proxy on its own, run to its end.
\* The event loop runs a task whenever one can run, and every awaited call
\* ends (with an answer, an error or the transport's timeout): the program
\* does not stop while a step is possible.  Within a round every task moves
\* forward only, so an endless run passes through EndRound again and again
\* and is fair to each task as well.
FairSpec == InitPosts /\ [][NextPosts]_vars /\ WF_vars(NextPosts)

\* fetch_user_with_proxy on its own, run to its end: every awaited call
\* (new_url, client.get) ends, so the walk does not stop while a step is
\* possible.
FairUser == InitUser /\ [][NextUser]_vars /\ WF_vars(NextUser)

\* ------------------------------------------------------------- properties
ErrorShortcodes == [i \in 1..Len(error_records) |-> error_records[i].shortcode]

InFlight == {b \in Tasks : bstate[b] \in {"acquired", "fetching"}}

\* C1: when fetch_posts_with_proxy returns, every input shortcode has as many
\* records (successful plus NOT_FETCHED) as it has occurrences in the input.
C1_EveryTargetExactlyOnce ==
    (phase = "posts" /\ pc = "returned") =>
        \A s \in Targets :
            results[s] + Count(ErrorShortcodes, s) = Count(shortcodes, s)

\* C2: with max_retries >= 1 fetch_posts_with_proxy eventually ends, whatever
\* the outcomes of the fetches and of the record extraction.
C2_Terminates ==
    <>(phase # "posts" \/ max_retries = 0 \/ pc # "running")

\* C3: if every target is requested and fails in every round and
\* max_retries >= 1, the run takes exactly max_retries rounds and then returns
\* one NOT_FETCHED record per input target.
C3_AllFailRunsMaxRetriesRounds ==
    (phase = "posts" /\ only_failures /\ max_retries >= 1) =>
        /\ rounds <= max_retries
        /\ (rounds = max_retries <=> pc = "returned")
        /\ pc = "returned" => /\ ErrorShortcodes = shortcodes
                              /\ \A s \in Targets : results[s] = 0

C3_Witness ==
    /\ phase = "posts" /\ pc = "returned" /\ only_failures
    /\ max_retries = 2 /\ rounds = 2
    /\ Len(shortcodes) = 2 /\ ErrorShortcodes = shortcodes

\* C4: the stagnation counter is the number of latest consecutive rounds that
\* did not strictly reduce the number of failed targets, and the run gives up
\* (returns with failed targets left) only when that number is max_retries.
C4_StagnationCounter ==
    phase = "posts" =>
        /\ no_progress = streak
        /\ (pc = "returned" /\ error_records # <<>>) => streak = max_retries

\* a failing round, a round with partial success, a failing round: still running
C4_Witness ==
    /\ phase = "posts" /\ pc = "running"
    /\ max_retries = 2 /\ rounds = 3 /\ no_progress = 1 /\ streak = 1

\* C5: every returned batch has each of its targets in exactly one output:
\* a record in results or an entry in failed.
C5_BatchOutputsPartition ==
    (phase = "posts" /\ last_batch # NoBatch) =>
        \A s \in Targets :
            /\ Count(last_batch.results, s) + Count(last_batch.failed, s)
                  = Count(last_batch.batch, s)
            /\ Count(last_batch.failed, s) <= Count(last_batch.batch, s)

\* C6: a batch whose proxy session cannot be acquired returns all its targets
\* as failed, and fetch_posts_with_proxy does not raise.
C6_SessionFailureIsContained ==
    phase = "posts" =>
        /\ pc # "raised"
        /\ \A b \in Tasks : bstate[b] = "raised" => bfailed[b] = batches[b]

\* C7 as stated: a target answered with status 401 or a malformed payload is
\* not in the batches of the next round.
C7_FinalFailuresNotRetried ==
    (phase = "posts" /\ pc = "running") =>
        \A s \in prev_final : Count(Flatten(batches), s) = 0

\* C7 as amended: a target answered with status 401 or a malformed payload is
\* treated like one failing with another status, a timeout or a proxy error:
\* it is in the batches of the next round, or in a NOT_FETCHED record when the
\* run gives up.
C7_EveryFailureRequeued ==
    phase = "posts" =>
        \A s \in prev_final \cup prev_transient :
            /\ pc = "running" => Count(Flatten(batches), s) > 0
            /\ pc = "returned" => Count(ErrorShortcodes, s) > 0

C7_Witness ==
    /\ phase = "posts" /\ pc = "running" /\ rounds = 1
    /\ prev_final # {} /\ prev_transient # {}
    /\ \A s \in prev_final : Count(Flatten(batches), s) > 0

\* C8: never more than concurrency_limit batches are in flight; the semaphore
\* accounts for each of them, a batch that has not run has no failed targets,
\* and a round ends only when every batch has run.
C8_InFlightBounded ==
    phase = "posts" =>
        /\ Cardinality(InFlight) <= concurrency_limit
        /\ sem + Cardinality(InFlight) = concurrency_limit
        /\ \A b \in Tasks : bstate[b] # "done" => bfailed[b] = <<>>
        /\ (rounds > 0 /\ pc = "returned") => \A b \in Tasks : bstate[b] = "done"

\* a batch waits while the limit is saturated
C8_Witness ==
    /\ phase = "posts" /\ pc = "running"
    /\ Cardinality(InFlight) = concurrency_limit
    /\ rounds = 1
    /\ \E b \in Tasks : bstate[b] = "waiting"

\* C9: every batch execution and every page request has one proxy session of
\* its own: a session is new when it is acquired, no two executions hold the
\* same one, and none serves a second execution or page request later on.
C9_OneSessionPerExecution ==
    /\ \A k \in 1..(MaxSessions - 1) : session_uses[k] <= 1
    /\ phase = "posts" =>
          \A b \in Tasks :
             /\ bstate[b] \in {"waiting", "acquired", "raised"} => bsession[b] = 0
             /\ bstate[b] \in {"fetching", "done"} => bsession[b] \in 1..nsessions
             /\ (bstate[b] = "fetching" /\ bsession[b] < MaxSessions)
                   => session_uses[bsession[b]] = 0
             /\ \A c \in Tasks \ {b} :
                   bsession[b] = bsession[c] => bsession[b] \in {0, MaxSessions}
    /\ (phase = "user" /\ pc = "request") =>
          /\ wsession = nsessions
          /\ wsession < MaxSessions => session_uses[wsession] = 0

\* a batch of the second round has run through a session of its own
C9_Witness ==
    /\ phase = "posts" /\ rounds = 1
    /\ session_uses[1] = 1
    /\ \E b \in Tasks :
          /\ bstate[b] = "done"
          /\ bsession[b] \in 2..(MaxSessions - 1)
          /\ bsession[b] = nsessions
          /\ session_uses[bsession[b]] = 1

\* the requests that C10 expects of one call of scrape_post: one more after
\* every read timeout, three at most
ExpectedCalls(nets) ==
    IF \E k \in 1..Tries : nets[k] # "timeout"
    THEN CHOOSE k \in 1..Tries :
            nets[k] # "timeout" /\ \A j \in 1..(k - 1) : nets[j] = "timeout"
    ELSE Tries

\* C10: one call of scrape_post makes a further request exactly after a read
\* timeout and while fewer than 3 requests were made.
C10_TimeoutsRetriedUpToThreeTimes ==
    (phase = "scrape" /\ pc = "returned") => sp_calls = ExpectedCalls(sp_net)

\* s is a prefix of t
IsPrefix(s, t) == Len(s) <= Len(t) /\ SubSeq(t, 1, Len(s)) = s

\* C11 as stated: a page request of fetch_user_with_proxy that fails (status
\* other than 200, or an exception) ends the walk at once, and the walk
\* returns the records of the earlier pages.
C11_FailedPageEndsWalk ==
    (phase = "user" /\ last_answer \in {"status", "error"}) =>
        /\ pc = "returned"
        /\ posts = [i \in 1..after |-> i]

\* C11 as amended: a page request answered with a status other than 200 ends
\* the walk at once with the records collected so far; a page request that
\* raises ends the walk only when max_retries = 0, and otherwise the walker
\* asks for the same page again through a new proxy session; either way the
\* records collected before the request stay in the result.
C11_FailedPageRetriedUnlessZero ==
    [][(phase = "user" /\ pc = "request") =>
          /\ last_answer' = "status" => (pc' = "returned" /\ posts' = posts)
          /\ last_answer' = "error" =>
                /\ IsPrefix(posts, posts')
                /\ after' = after /\ page_number' = page_number
                /\ pc' = IF max_retries = 0 THEN "returned" ELSE "new_url"]_vars

\* a page request fails after a page was collected, and the walker goes on
C11_Witness ==
    /\ phase = "user" /\ last_answer = "error" /\ pc = "new_url"
    /\ max_retries >= 1 /\ posts # <<>> /\ page_number = 2

\* a loop of fetch_user_with_proxy or of scrape_user_posts
Walking == phase \in {"user", "scraper"}

\* C12: a page answered with the cursor its request was made with ends the
\* walk (no further page request), whatever max_pages is; so whenever a walker
\* goes on to the next page, its cursor has changed.
C12_SameCursorStopsWalk ==
    [][(Walking /\ pc = "request") =>
          /\ last_answer' = "stuck" => (pc' = "returned" /\ after' = after)
          /\ last_answer' = "next" => (pc' # "returned" /\ after' # after)
          /\ pc' \in {"new_url", "request"} => last_answer' \in {"next", "error"}]_vars
      /\ [][(Walking /\ pc = "returned") => UNCHANGED vars]_vars

\* the second page comes back with the cursor of the first and has_next_page
\* set, max_pages is unbounded: the walk of main.py has ended
C12_Witness ==
    /\ phase = "user" /\ pc = "returned" /\ last_answer = "stuck"
    /\ max_pages = 0 /\ page_number = 2 /\ after > 0 /\ Len(posts) > after

\* the positions of the feed before its first record older than the cutoff
BeforeCutoff(timeline, cutoff) ==
    LET older == {i \in 1..Len(timeline) : timeline[i] < cutoff}
    IN  [i \in 1..(IF older = {} THEN Len(timeline)
                   ELSE (CHOOSE k \in older : \A j \in older : k <= j) - 1) |-> i]

\* C13: when a page holds a record older than the cutoff, the walk ends there,
\* whatever max_pages is, and returns exactly the records of the feed before
\* the first such record (one as old as the cutoff is kept); a page
\* [5,4,3,2,1] with cutoff 3 gives [5,4,3].
C13_CutoffReturnsRecordsBefore ==
    /\ CollectFrom(<<5, 4, 3, 2, 1>>, 3, <<1, 2, 3, 4, 5>>, 1, 0, <<>>)
          = [posts |-> <<1, 2, 3>>, end |-> "cutoff"]
    /\ (phase = "user" /\ last_answer = "cutoff") =>
          /\ pc = "returned"
          /\ posts = BeforeCutoff(feed, from_date)

\* the step that meets the cutoff: it ends the walk and adds exactly the
\* records of its page that precede the first older one
CutoffStep ==
    [][(phase = "user" /\ pc = "request" /\ last_answer' = "cutoff") =>
          /\ pc' = "returned"
          /\ \E n \in 0..PageSize :
                /\ posts' = posts \o [i \in 1..n |-> after + i]
                /\ \A i \in 1..n : feed[after + i] >= from_date
                /\ feed[after + n + 1] < from_date]_vars

\* C14: with max_pages = m > 0 a walk requests the pages 1..m only, so its
\* records come from the first m pages, and it stops when the page count
\* passes m; with max_pages = 0 the page count never stops the walk.
C14_PageLimit ==
    Walking =>
        /\ max_pages > 0 =>
              /\ pc \in {"new_url", "request"} => page_number <= max_pages
              /\ \A i \in 1..Len(posts) : posts[i] <= max_pages * page_size
              /\ last_answer = "limit" <=>
                    (pc = "returned" /\ page_number = max_pages + 1)
        /\ max_pages = 0 => last_answer # "limit"

\* two pages of a longer feed were collected and the limit of two pages ended
\* the walk
C14_Witness ==
    /\ phase = "user" /\ pc = "returned" /\ last_answer = "limit"
    /\ max_pages = 2 /\ page_number = 3 /\ Len(posts) < Len(feed)

\* with max_pages = 0 the walk goes on to a third page
C14_UnboundedWalk ==
    /\ Walking /\ max_pages = 0 /\ page_number = 3 /\ pc = "request"

\* the list that the batches of the current round were made of
Pending == IF rounds = 0 THEN shortcodes ELSE failed_shortcodes

\* C15: in every round the batches are ceil(N/B) in number for N pending
\* targets and batch size B, each has B targets except a last one that may
\* have fewer (never none), and put one after the other they are the pending
\* list.
C15_BatchesPartitionPending ==
    (phase = "posts" /\ pc = "running") =>
        LET n == Len(batches)
            N == Len(Pending)
        IN  /\ n * batchsize >= N /\ (n - 1) * batchsize < N
            /\ \A k \in 1..n :
                  /\ Len(batches[k]) \in 1..batchsize
                  /\ k < n => Len(batches[k]) = batchsize
            /\ Flatten(batches) = Pending

\* three failed targets re-queued in batches of two: a full batch and a rest
C15_Witness ==
    /\ phase = "posts" /\ pc = "running" /\ rounds = 1
    /\ Len(failed_shortcodes) = 3 /\ batchsize = 2
    /\ Len(batches) = 2 /\ Len(batches[2]) = 1

\* C16: parse_post returns the caption as one string, the texts of the
\* caption edges joined by an empty line: "a\n\nb" for ["a","b"], the empty
\* string for an empty list; a node that has its caption edges does not make
\* it raise.
C16_CaptionIsJoinedString ==
    /\ parse_post([NoPayload EXCEPT !.has_caption = TRUE,
                                    !.caption = <<<<"a">>, <<"b">>>>]).caption
          = Str(<<"a", "\n", "\n", "b">>)
    /\ (phase = "parse" /\ pc # "start" /\ payload.has_caption
          /\ ~(IsSidecar(payload.typename) /\ ~payload.has_children)) =>
          /\ pc = "returned"
          /\ record.caption = Str(Join(<<"\n", "\n">>, payload.caption))

\* the shape of comments that a node carries (the top-level one when both)
ShapePresent(data) ==
    IF data.has_comment THEN CommentFields(TRUE, TopComments)
    ELSE CommentFields(data.has_parent_comment, ParentComments)

\* C17: the comment count, cursor and entries of a record are read from the
\* shape of comments that its node carries, for the extractor of parse.py
\* (through parse_post) and for the one of instagram.py; they are not null
\* for a node that carries only the top-level shape.
C17_CommentsFromShapePresent ==
    (phase = "parse" /\ pc = "returned") =>
        /\ parse_comments(payload) = ShapePresent(payload)
        /\ (record.comments = ShapePresent(payload)
               \/ (payload.has_comment /\ payload.has_parent_comment
                      /\ record.comments = CommentFields(TRUE, ParentComments)))
        /\ (payload.has_comment /\ ~payload.has_parent_comment) =>
              /\ record.comments.n_comments # None
              /\ record.comments.comments # None

\* the type tags as the claims name them
ImageTags == {"XDTGraphImage", "GraphImage"}
VideoTags == {"XDTGraphVideo", "GraphVideo"}
SidecarTags == {"XDTGraphSidecar", "GraphSidecar"}

\* C18: the record of a Video node has a videos field and no images field,
\* the record of an Image node an images field and no videos field, and the
\* record of a Sidecar node an images field with one image record per child,
\* in the order of the children.
C18_MediaDispatch ==
    (phase = "parse" /\ pc = "returned") =>
        /\ payload.typename \in VideoTags =>
              /\ "videos" \in record.fields /\ "images" \notin record.fields
              /\ record.videos = <<parse_video("self")>> /\ record.images = <<>>
        /\ payload.typename \in ImageTags =>
              /\ "images" \in record.fields /\ "videos" \notin record.fields
              /\ record.images = <<parse_image("self")>> /\ record.videos = <<>>
        /\ payload.typename \in SidecarTags =>
              /\ "images" \in record.fields /\ "videos" \notin record.fields
              /\ record.videos = <<>>
              /\ Len(record.images) = Len(payload.children)
              /\ \A i \in 1..Len(payload.children) :
                    record.images[i] = parse_image(payload.children[i])

\* a sidecar of two children, the second child first
C18_Witness ==
    /\ phase = "parse" /\ pc = "returned"
    /\ payload.typename = "XDTGraphSidecar" /\ payload.children = <<"c2", "c1">>
    /\ record.images = <<parse_image("c2"), parse_image("c1")>>

\* C19: a node whose type tag is missing or not one that parse_post knows,
\* and that has its caption edges, gives a record with every field that is
\* not media, filled as for a node of a known type, and with neither images
\* nor videos; parse_post does not raise.
C19_UnknownTypeGivesRecordWithoutMedia ==
    (phase = "parse" /\ pc # "start" /\ payload.has_caption
        /\ payload.typename \notin ImageTags \cup VideoTags \cup SidecarTags) =>
        /\ pc = "returned"
        /\ record.fields = NonMediaFields
        /\ record.images = <<>> /\ record.videos = <<>>
        /\ record.caption = parse_post([payload EXCEPT !.typename = "GraphVideo"]).caption
        /\ record.comments = parse_post([payload EXCEPT !.typename = "GraphVideo"]).comments

\* a node with a tag that parse_post does not know has been parsed
C19_Witness ==
    /\ phase = "parse" /\ pc = "returned"
    /\ payload.typename = "GraphStoryImage" /\ payload.caption # <<>>
    /\ record.fields = NonMediaFields

\* C20: a walk whose page requests all raise comes to an end: sooner or later
\* fetch_user_with_proxy returns, unless a page request is answered without
\* an exception.
C20_FailingWalkEnds ==
    <>(pc = "returned" \/ last_answer \notin {"none", "error"})

\* C21: with max_retries = 0 a run of fetch_posts_with_proxy in which every
\* target is requested and fails in every round comes to an end.
C21_ZeroRetriesTerminates ==
    <>(max_retries # 0 \/ pc # "running" \/ ~only_failures)

\* C22: the posts collected by fetch_user_with_proxy are at any time the first
\* records of the feed, each once, in feed order.
C22_PostsArePrefixOfFeed ==
    phase = "user" =>
        /\ Len(posts) <= Len(feed)
        /\ posts = [i \in 1..Len(posts) |-> i]

\* C24: every NOT_FETCHED record that fetch_posts_with_proxy returns names in
\* its message the shortcode of its own shortcode field.
C24_ErrorRecordNamesItsTarget ==
    (phase = "posts" /\ pc = "returned") =>
        \A i \in 1..Len(error_records) :
            error_records[i].message = error_records[i].shortcode

\* the user walks that have started and not returned
WalksInFlight == {u \in 1..Len(walks) : walks[u] = "walking"}

\* C23: never more than concurrency_limit user walks are in flight.
C23_WalksInFlightBounded ==
    phase = "users" => Cardinality(WalksInFlight) <= concurrency_limit

====
